---------------------------- MODULE Spec2Model ----------------------------
(***************************************************************************)
(* A model of house_search: the price-slider convergence loop of           *)
(* PropertySearchEngine (src/engine/search_engine.py), the travel-time     *)
(* cache of DistanceCalculator (src/utils/distance.py) and the filter      *)
(* sequencer perform_search.                                               *)
(***************************************************************************)
EXTENDS Integers, Sequences, FiniteSets, TLC

VARIABLES
    \* ---- the price slider control (the page) ----
    aria_valuenow,   \* the handle's aria-valuenow attribute, or Absent
    stepFine,        \* what one ArrowLeft/ArrowRight moves the handle by (unknown to the engine)
    stepPage,        \* what one PageDown/PageUp moves the handle by (unknown to the engine)
    erratic,         \* TRUE: the control answers a key with any value at all
    \* ---- _set_price_slider_value ----
    spc,             \* position in _set_price_slider_value
    handle_type,     \* "min" or "max"
    target_value,
    attempts,
    current_value,   \* the last value read by the engine
    loopReads,       \* reads made by the adjustment loop so far, capped at 1
    stepCmds,        \* step commands issued by the adjustment loop
    lastKey,         \* the last key sent to the control
    final_value,
    finalReads,      \* reads of the final value
    logged,          \* "none", "success" or "warning"
    \* ---- DistanceCalculator ----
    cache,           \* self.cache: cache key -> entry
    disk,            \* the cache file: [state, map]
    ret,             \* what the last get_travel_time returned (NoneValue for None)
    raised,          \* the last get_travel_time raised to its caller
    apiCalled,       \* the last get_travel_time called the distance API
    loglines,        \* what the last get_travel_time logged
    request,         \* the arguments of the last get_travel_time
    response,        \* what the distance API answered in it (NoResponse: not called)
    saveIo,          \* what the file system did in its _save_cache ("none": not called)
    prevEntry,       \* history: the entry its key had when it was called
    loaded,          \* "no": not constructed; "failed": __init__ raised;
                     \* "mapping" / "null": what kind of value self.cache holds
    writer,          \* history: cache key -> the request whose lookup stored the entry
    \* ---- perform_search ----
    pc,              \* the step perform_search is at; "raised": an exception left it
    criteria,        \* self.criteria
    broken,          \* the element of the page that cannot be found, or "none"
    checked,         \* the property-type boxes that are checked
    handles,         \* the values of the two price handles
    trace,           \* the steps started, in order
    uiActions,       \* the interactions carried out on the page, in order
    searchLog,       \* the failures caught and logged
    \* ---- DistanceEnricher.enrich_listing ----
    epc,             \* position in enrich_listing; "raised": an exception left it
    listing,         \* the listing: its full_address and its distance_<slug>_mins fields
    locIdx,          \* the location get_distances_to_key_locations is at
    distances,       \* its result so far: slug -> what get_travel_time returned
    lookupLog,       \* the get_travel_time calls it made, in order
    \* ---- BrowserSession.goto ----
    nav,             \* the call of goto: its position, arguments, attempts and waits
    \* ---- a second run sharing the cache file ----
    peer,            \* which run is executing, and the memory of the run that is not
    \* ---- _get_cache_key as a function ----
    keyed            \* two lookups and the keys computed for them

sliderVars == <<aria_valuenow, stepFine, stepPage, erratic, spc, handle_type,
                target_value, attempts, current_value, loopReads, stepCmds,
                lastKey, final_value, finalReads, logged>>

cacheVars == <<cache, disk, ret, raised, apiCalled, loglines, request, response,
              saveIo, prevEntry, writer, loaded>>

searchVars == <<pc, criteria, broken, checked, handles, trace, uiActions, searchLog>>

enrichVars == <<epc, listing, locIdx, distances, lookupLog>>

otherVars == <<nav, peer, keyed>>

vars == <<sliderVars, cacheVars, searchVars, enrichVars, otherVars>>

\* what each component leaves alone
nonSliderVars == <<cacheVars, searchVars, enrichVars, otherVars>>
nonCacheVars == <<sliderVars, searchVars, enrichVars, otherVars>>
nonSearchVars == <<sliderVars, cacheVars, enrichVars, otherVars>>
nonEnrichVars == <<sliderVars, searchVars, otherVars>>

----------------------------------------------------------------------------
(* Bounds of the model *)

\* fine steps tried: 0, 25,000, ... , 25,000 * MaxFineMult
MaxFineMult == 5
\* page steps tried: 650,000, ... , 650,000 * MaxPageMult
MaxPageMult == 2
\* targets tried: 0, 250,000, ... , 250,000 * MaxTargetMult, the slider maximum
\* and the value 1,000,000 below it
MaxTargetMult == 6
\* durations the distance API answers: 60 s, 90 s, ... , 60 + 30 * MaxSecondsMult s
MaxSecondsMult == 1

----------------------------------------------------------------------------
(* Program constants *)

max_attempts == 200
large_step_threshold == 1000000
tolerance == 50000
slider_max == 13000000
\* SEARCH_CRITERIA["price_max"], the target of the spec's scenario
scenario_target == 1000000

Absent == -1

Abs(x) == IF x < 0 THEN 0 - x ELSE x
Min2(a, b) == IF a < b THEN a ELSE b
Max2(a, b) == IF a > b THEN a ELSE b

----------------------------------------------------------------------------
(* The slider control: the page's answer to a key *)

FineSteps == {25000 * k : k \in 0..MaxFineMult}
PageSteps == {650000 * k : k \in 1..MaxPageMult}
Targets ==
    {250000 * k : k \in 0..MaxTargetMult}
        \cup {slider_max - large_step_threshold, slider_max}

\* int(slider_handle.get_attribute("aria-valuenow") or "0")
ReadValueNow(attr) == IF attr = Absent THEN 0 ELSE attr

\* A control that honours the keys: Home/End jump to the extremes, the arrow
\* keys move by the fine step and the page keys by the page step, clamped
\* to the range.
KeyEffect(key, v) ==
    CASE key = "End"        -> slider_max
      [] key = "Home"       -> 0
      [] key = "PageDown"   -> Max2(0, v - stepPage)
      [] key = "ArrowLeft"  -> Max2(0, v - stepFine)
      [] key = "PageUp"     -> Min2(slider_max, v + stepPage)
      [] key = "ArrowRight" -> Min2(slider_max, v + stepFine)

\* What an erratic control may show after a key: values around the target, the
\* extremes, or no attribute at all.
ErraticValues(t) ==
    { v \in { t - large_step_threshold - 1, t - tolerance, t,
              t + tolerance + 1, t + large_step_threshold + 1 } :
        0 <= v /\ v <= slider_max } \cup {Absent}

Respond(key, attr) ==
    IF erratic THEN ErraticValues(target_value)
               ELSE {KeyEffect(key, ReadValueNow(attr))}

----------------------------------------------------------------------------
(* PropertySearchEngine._set_price_slider_value *)

\* while attempts < max_attempts
LoopGuardOffByOne(att) == att <= max_attempts
LoopGuard(att) == att < max_attempts

\* if handle_type == "max": work backwards from the end; else: forwards from
\* the beginning
DirectionSwapped(h) == IF h = "max" THEN "up" ELSE "down"
Direction(h) == IF h = "max" THEN "down" ELSE "up"

\* the key that starts the bound at its extreme
ExtremeKeyAlwaysEnd(h) == "End"
ExtremeKey(h) == IF Direction(h) = "down" THEN "End" ELSE "Home"

\* if current_value <= target_value: break  /  if current_value >= target_value: break
ReachedOnlyWhenPassed(h, cur, t) == IF Direction(h) = "down" THEN cur < t ELSE cur > t
Reached(h, cur, t) == IF Direction(h) = "down" THEN cur <= t ELSE cur >= t

\* the step command of one loop iteration
StepKeyAlwaysPage(h, cur, t) ==
    IF Direction(h) = "down" THEN "PageDown" ELSE "PageUp"
StepKeyPageOverHalfThreshold(h, cur, t) ==
    IF Direction(h) = "down"
    THEN (IF 2 * (cur - t) > large_step_threshold THEN "PageDown" ELSE "ArrowLeft")
    ELSE (IF 2 * (t - cur) > large_step_threshold THEN "PageUp" ELSE "ArrowRight")
StepKeyPageAtThreshold(h, cur, t) ==
    IF Direction(h) = "down"
    THEN (IF cur - t >= large_step_threshold THEN "PageDown" ELSE "ArrowLeft")
    ELSE (IF t - cur >= large_step_threshold THEN "PageUp" ELSE "ArrowRight")
StepKey(h, cur, t) ==
    IF Direction(h) = "down"
    THEN (IF cur - t > large_step_threshold THEN "PageDown" ELSE "ArrowLeft")
    ELSE (IF t - cur > large_step_threshold THEN "PageUp" ELSE "ArrowRight")

\* if abs(final_value - target_value) <= tolerance: logger.info else logger.warning
VerifyLogStrictlyWithin(fin, t) == IF Abs(fin - t) < tolerance THEN "success" ELSE "warning"
VerifyLog(fin, t) == IF Abs(fin - t) <= tolerance THEN "success" ELSE "warning"

\* focus, first read, jump to the extreme
SetPriceStart ==
    /\ spc = "call"
    /\ current_value' = ReadValueNow(aria_valuenow)
    /\ \E v \in Respond(ExtremeKey(handle_type), aria_valuenow) : aria_valuenow' = v
    /\ lastKey' = ExtremeKey(handle_type)
    /\ attempts' = 0
    /\ spc' = "loop"
    /\ UNCHANGED nonSliderVars
    /\ UNCHANGED <<stepFine, stepPage, erratic, handle_type, target_value,
                   loopReads, stepCmds, final_value, finalReads, logged>>

\* the loop condition is false: the budget is used up
LoopExhausted ==
    /\ spc = "loop"
    /\ ~LoopGuard(attempts)
    /\ spc' = "verify"
    /\ UNCHANGED nonSliderVars
    /\ UNCHANGED <<aria_valuenow, stepFine, stepPage, erratic, handle_type,
                   target_value, attempts, current_value, loopReads,
                   stepCmds, lastKey, final_value, finalReads, logged>>

\* one iteration that reads the value and breaks
LoopBreak ==
    /\ spc = "loop"
    /\ LoopGuard(attempts)
    /\ Reached(handle_type, ReadValueNow(aria_valuenow), target_value)
    /\ current_value' = ReadValueNow(aria_valuenow)
    /\ loopReads' = 1
    /\ spc' = "verify"
    /\ UNCHANGED nonSliderVars
    /\ UNCHANGED <<aria_valuenow, stepFine, stepPage, erratic, handle_type,
                   target_value, attempts, stepCmds, lastKey,
                   final_value, finalReads, logged>>

\* one iteration that reads the value and sends a step command
LoopPress ==
    /\ spc = "loop"
    /\ LoopGuard(attempts)
    /\ ~Reached(handle_type, ReadValueNow(aria_valuenow), target_value)
    /\ current_value' = ReadValueNow(aria_valuenow)
    /\ loopReads' = 1
    /\ LET key == StepKey(handle_type, ReadValueNow(aria_valuenow), target_value)
       IN  /\ \E v \in Respond(key, aria_valuenow) : aria_valuenow' = v
           /\ lastKey' = key
    /\ attempts' = attempts + 1
    /\ stepCmds' = stepCmds + 1
    /\ UNCHANGED nonSliderVars
    /\ UNCHANGED <<stepFine, stepPage, erratic, handle_type, target_value, spc,
                   final_value, finalReads, logged>>

\* the final read and the log line
VerifyFinal ==
    /\ spc = "verify"
    /\ final_value' = ReadValueNow(aria_valuenow)
    /\ finalReads' = finalReads + 1
    /\ logged' = VerifyLog(ReadValueNow(aria_valuenow), target_value)
    /\ spc' = "done"
    /\ UNCHANGED nonSliderVars
    /\ UNCHANGED <<aria_valuenow, stepFine, stepPage, erratic, handle_type,
                   target_value, attempts, current_value, loopReads,
                   stepCmds, lastKey>>

SetPriceSliderValue ==
    \/ SetPriceStart
    \/ LoopExhausted
    \/ LoopBreak
    \/ LoopPress
    \/ VerifyFinal

\* The state at the call of _set_price_slider_value(handle, target, handle_type):
\* the page shows any value, the control has any granularity.
InitSliderWith(err, fines, pages, targets) ==
    /\ erratic = err
    /\ stepFine \in fines
    /\ stepPage \in pages
    /\ aria_valuenow \in {0, slider_max}
    /\ handle_type \in {"min", "max"}
    /\ target_value \in targets
    /\ spc = "call"
    /\ attempts = 0
    /\ current_value = 0
    /\ loopReads = 0
    /\ stepCmds = 0
    /\ lastKey = "none"
    /\ final_value = 0
    /\ finalReads = 0
    /\ logged = "none"

----------------------------------------------------------------------------
(* DistanceCalculator: the travel-time cache (src/utils/distance.py) *)

\* Strings are sequences of characters.
LowerChar(c) ==
    CASE c = "M" -> "m"
      [] c = "H" -> "h"
      [] OTHER   -> c
IsSpace(c) == c \in {" ", "\t", "\n"}

\* str.lower()
Lower(s) == [i \in 1..Len(s) |-> LowerChar(s[i])]

\* str.strip(): drop the leading and the trailing whitespace
RECURSIVE LStrip(_)
LStrip(s) == IF s # <<>> /\ IsSpace(Head(s)) THEN LStrip(Tail(s)) ELSE s
RECURSIVE RStrip(_)
RStrip(s) ==
    IF s # <<>> /\ IsSpace(s[Len(s)]) THEN RStrip(SubSeq(s, 1, Len(s) - 1)) ELSE s
Strip(s) == RStrip(LStrip(s))

\* f"{mode}|{origin.lower().strip()}|{destination.lower().strip()}"
GetCacheKeyNoLower(origin, destination, mode) ==
    <<mode, "|">> \o Strip(origin) \o <<"|">> \o Strip(destination)
GetCacheKey(origin, destination, mode) ==
    <<mode, "|">> \o Strip(Lower(origin)) \o <<"|">> \o Strip(Lower(destination))

\* round(x, 0) of secs / 60: Python rounds a half to the even neighbour
RoundMinutes(secs) ==
    LET q == secs \div 60
        r == secs % 60
    IN  IF r < 30 THEN q
        ELSE IF r > 30 THEN q + 1
        ELSE IF q % 2 = 0 THEN q ELSE q + 1

\* distance_data = {'duration_mins': ..., 'mode': mode_str}
DistanceData(secs, mode) == [duration_mins |-> RoundMinutes(secs), mode |-> mode]

\* return None
NoneValue == [duration_mins |-> -1, mode |-> "None"]

EmptyMap == [k \in {} |-> NoneValue]

\* self.cache[cache_key] = distance_data
CachePutReplacingAll(c, key, data) == [k \in {key} |-> data]
CachePut(c, key, data) ==
    [k \in DOMAIN c \cup {key} |-> IF k = key THEN data ELSE c[k]]

\* json.dump(self.cache, f): the whole mapping goes to the file
\* open(..., 'w') truncates, json.dump writes the whole mapping
DumpedAppending(c, d) ==
    IF d.state = "missing" THEN [state |-> "json", map |-> c]
    ELSE [state |-> "corrupt", map |-> EmptyMap]
Dumped(c, d) == [state |-> "json", map |-> c]

\* _save_cache, by what the file system does:
\*   "ok"              the file is written
\*   "open_fails"      open(..., 'w') raises IOError: caught, warning, file untouched
\*   "write_fails"     the write raises IOError after the file was truncated:
\*                     caught, warning, the file is no longer valid JSON
\*   "makedirs_raises" os.makedirs raises OSError, outside _save_cache's try
SaveOutcomes == {"ok", "open_fails", "write_fails", "makedirs_raises"}

\* a save that would merge the file's entries with the memory's
SaveCacheDiskMerging(c, key, d, io) ==
    IF io = "ok"
    THEN [state |-> "json",
          map |-> [k \in DOMAIN c \cup (IF d.state = "json" THEN DOMAIN d.map ELSE {}) |->
                     IF k \in DOMAIN c THEN c[k] ELSE d.map[k]]]
    ELSE IF io = "write_fails" THEN [state |-> "corrupt", map |-> EmptyMap]
    ELSE d
SaveCacheDisk(c, key, d, io) ==
    CASE io = "ok"              -> Dumped(c, d)
      [] io = "open_fails"      -> d
      [] io = "write_fails"     -> [state |-> "corrupt", map |-> EmptyMap]
      [] io = "makedirs_raises" -> d

SaveCacheLog(io) ==
    IF io \in {"open_fails", "write_fails"} THEN <<"warning: failed to save">> ELSE <<>>

SaveCacheRaises(io) == IF io = "makedirs_raises" THEN "OSError" ELSE "none"

\* What the cache file may be when it is loaded:
\*   "missing"      no file
\*   "unreadable"   open raises IOError
\*   "corrupt"      text that is not JSON: json.load raises JSONDecodeError
\*   "undecodable"  bytes that are not text: reading raises UnicodeDecodeError
\*   "json"         a JSON object, the stored mapping
\*   "json_null"    valid JSON that is not an object (null)
FileStates == {"missing", "unreadable", "corrupt", "undecodable", "json", "json_null"}

\* _load_cache: a missing file, or one whose load raises JSONDecodeError or
\* IOError, gives {}; otherwise whatever json.load returns
LoadCache(d) == IF d.state = "json" THEN d.map ELSE EmptyMap

\* the kind of value json.load returned
LoadedAs(d) == IF d.state = "json_null" THEN "null" ELSE "mapping"

\* except (json.JSONDecodeError, IOError): UnicodeDecodeError is neither
LoadRaises(d) == d.state = "undecodable"

LoadLog(d) ==
    IF d.state \in {"unreadable", "corrupt"} THEN <<"warning: failed to load">> ELSE <<>>

\* What the distance API may answer.  raises: client.distance_matrix raises;
\* status: the response's status ("none": the key is missing); rows: whether
\* rows[0].elements[0] exists; elem: the element's status; secs: the
\* element's duration.value (-1: missing).
Seconds == {60 + 30 * k : k \in 0..MaxSecondsMult}

Resp(ra, st, ro, el, se) ==
    [raises |-> ra, status |-> st, rows |-> ro, elem |-> el, secs |-> se]

ApiResponses ==
    {Resp(TRUE, "none", FALSE, "none", -1)}
    \cup {Resp(FALSE, "REQUEST_DENIED", FALSE, "none", -1)}
    \cup {Resp(FALSE, "OK", FALSE, "none", -1)}
    \cup {Resp(FALSE, "OK", TRUE, el, -1) : el \in {"NOT_FOUND", "OK"}}
    \cup {Resp(FALSE, "OK", TRUE, "OK", se) : se \in Seconds}

FullyOk(resp) ==
    /\ ~resp.raises /\ resp.status = "OK" /\ resp.rows /\ resp.elem = "OK"
    /\ resp.secs >= 0

\* else: logger.warning(...): a failed element leaves the cache alone
CacheAfterFailureNegative(c, key) == CachePut(c, key, NoneValue)
CacheAfterFailure(c, key) == c

\* The body of the try block (lines 116-144): what it does to the cache and
\* the file, what it logs, and how it ends: with a return value, by falling
\* through to "return None", or with an exception.
Ends(c, d, lg, ex, rv) == [cache |-> c, disk |-> d, log |-> lg, exc |-> ex, ret |-> rv]

\* lines 128-137: the entry is stored, the cache is saved, the entry returned
StoreAndReturn(c2, key, data, io) ==
    Ends(c2, SaveCacheDisk(c2, key, disk, io), SaveCacheLog(io), SaveCacheRaises(io),
         IF SaveCacheRaises(io) = "none" THEN data ELSE NoneValue)

TryBody(key, mode, resp, io) ==
    IF resp.raises THEN Ends(cache, disk, <<>>, "TransportError", NoneValue)
    ELSE IF resp.status = "none" THEN Ends(cache, disk, <<>>, "KeyError", NoneValue)
    ELSE IF resp.status # "OK"
         THEN Ends(cache, disk, <<"warning: API error">>, "none", NoneValue)
    ELSE IF ~resp.rows THEN Ends(cache, disk, <<>>, "IndexError", NoneValue)
    ELSE IF resp.elem = "none" THEN Ends(cache, disk, <<>>, "KeyError", NoneValue)
    ELSE IF resp.elem # "OK"
         THEN Ends(CacheAfterFailure(cache, key), disk,
                   <<"warning: calculation failed">>, "none", NoneValue)
    ELSE IF resp.secs < 0 THEN Ends(cache, disk, <<>>, "KeyError", NoneValue)
    ELSE IF loaded = "null" THEN Ends(cache, disk, <<>>, "TypeError", NoneValue)
    ELSE StoreAndReturn(CachePut(cache, key, DistanceData(resp.secs, mode)), key,
                        DistanceData(resp.secs, mode), io)

\* except Exception as e: every exception of the try block is caught
CaughtOnlyApiErrors(kind) == kind \in {"TransportError"}
Caught(kind) ==
    kind \in {"TransportError", "KeyError", "IndexError", "OSError", "TypeError"}

\* if use_cache and cache_key in self.cache
IsHitNever(key, use_cache) == FALSE
IsHit(key, use_cache) == use_cache /\ key \in DOMAIN cache

GetTravelTime(origin, destination, mode, use_cache, resp, io) ==
    \E key \in {GetCacheKey(origin, destination, mode)} :
        IF use_cache /\ loaded = "null"
        THEN \* line 111, outside the try: "in" on None raises TypeError
             /\ raised' = TRUE
             /\ ret' = NoneValue
             /\ loglines' = <<>>
             /\ apiCalled' = FALSE
             /\ UNCHANGED <<cache, disk>>
        ELSE IF IsHit(key, use_cache)
        THEN /\ ret' = cache[key]
             /\ loglines' = <<"debug: cache hit">>
             /\ apiCalled' = FALSE
             /\ raised' = FALSE
             /\ UNCHANGED <<cache, disk>>
        ELSE \E b \in {TryBody(key, mode, resp, io)} :
                 /\ apiCalled' = TRUE
                 /\ cache' = b.cache
                 /\ disk' = b.disk
                 /\ raised' = (b.exc # "none" /\ ~Caught(b.exc))
                 /\ loglines' = IF b.exc # "none" /\ Caught(b.exc)
                                THEN b.log \o <<"error">> ELSE b.log
                 /\ ret' = b.ret

\* the lookups made: <<origin, destination, mode>>.  The first two differ only
\* in letter case and outer whitespace, the third from the second only in the
\* mode.
Requests == { << <<"1", " ", "M", " ">>, <<"H">>, "transit" >>,
              << <<"1", " ", "m">>, <<" ", "h">>, "transit" >>,
              << <<"1", " ", "m">>, <<" ", "h">>, "driving" >> }

NoRequest == << <<>>, <<>>, "none", FALSE >>
NoResponse == Resp(FALSE, "not called", FALSE, "none", -1)

KeyOf(r) == GetCacheKey(r[1], r[2], r[3])

EntryOf(c, key) == IF key \in DOMAIN c THEN c[key] ELSE NoneValue

\* one call get_travel_time(r[1], r[2], r[3], use_cache) with the API answering
\* resp and the file system io; the history variables record the call
Call(r, u, resp, io) ==
    /\ GetTravelTime(r[1], r[2], r[3], u, resp, io)
    /\ request' = <<r[1], r[2], r[3], u>>
    /\ response' = IF apiCalled' THEN resp ELSE NoResponse
    /\ saveIo' = IF apiCalled' /\ FullyOk(resp) THEN io ELSE "none"
    /\ prevEntry' = EntryOf(cache, KeyOf(r))
    /\ UNCHANGED loaded
    /\ writer' = IF apiCalled' /\ FullyOk(resp) /\ loaded = "mapping"
                 THEN [k \in DOMAIN writer \cup {KeyOf(r)} |->
                         IF k = KeyOf(r) THEN r ELSE writer[k]]
                 ELSE writer

Lookup ==
    /\ loaded \in {"mapping", "null"}
    /\ \E r \in Requests, u \in BOOLEAN, resp \in ApiResponses, io \in SaveOutcomes :
          /\ (FullyOk(resp) \/ io = "ok")
          /\ Call(r, u, resp, io)
    /\ UNCHANGED nonCacheVars

\* After DistanceCalculator.__init__: the file is missing, is not JSON, or
\* holds an empty mapping; self.cache is what _load_cache made of it.
InitCache ==
    /\ disk \in { [state |-> st, map |-> EmptyMap] : st \in {"missing", "corrupt", "json"} }
    /\ cache = LoadCache(disk)
    /\ loaded = LoadedAs(disk)
    /\ ret = NoneValue
    /\ raised = FALSE
    /\ apiCalled = FALSE
    /\ loglines = <<>>
    /\ request = NoRequest
    /\ response = NoResponse
    /\ saveIo = "none"
    /\ prevEntry = NoneValue
    /\ writer = [k \in {} |-> NoRequest]

\* DistanceCalculator.__init__: self.cache = self._load_cache()
Construct ==
    /\ loaded = "no"
    /\ IF LoadRaises(disk)
       THEN /\ loaded' = "failed"
            /\ loglines' = <<>>
            /\ UNCHANGED cache
       ELSE /\ loaded' = LoadedAs(disk)
            /\ cache' = LoadCache(disk)
            /\ loglines' = LoadLog(disk)
    /\ UNCHANGED <<disk, ret, raised, apiCalled, request, response, saveIo,
                   prevEntry, writer>>
    /\ UNCHANGED nonCacheVars

\* a stored mapping with one entry, as an earlier run left it
StoredEntry == DistanceData(60, "transit")
StoredMap == [k \in {GetCacheKey(<<"1", " ", "m">>, <<"h">>, "transit")} |-> StoredEntry]

\* Before DistanceCalculator.__init__: the cache file is in any state
InitBeforeLoad ==
    /\ disk \in { [state |-> st, map |-> IF st = "json" THEN StoredMap ELSE EmptyMap] :
                    st \in FileStates }
    /\ cache = EmptyMap
    /\ loaded = "no"
    /\ ret = NoneValue
    /\ raised = FALSE
    /\ apiCalled = FALSE
    /\ loglines = <<>>
    /\ request = NoRequest
    /\ response = NoResponse
    /\ saveIo = "none"
    /\ prevEntry = NoneValue
    /\ writer = [k \in {} |-> NoRequest]

----------------------------------------------------------------------------
(* DistanceEnricher.enrich_listing and get_distances_to_key_locations *)

\* KEY_LOCATIONS; an address is a sequence of characters
KeyLocations ==
    << [slug |-> "rnsh", address |-> <<"r">>, travel_mode |-> "transit"],
       [slug |-> "qvb", address |-> <<"q">>, travel_mode |-> "transit"],
       [slug |-> "bella_vista", address |-> <<"b">>, travel_mode |-> "driving"] >>

Slugs == {KeyLocations[i].slug : i \in 1..Len(KeyLocations)}

\* a distance_<slug>_mins field that is None
Unset == -1

\* minutes stored by an earlier enrichment
EarlierMins == 30

\* if not listing.full_address: warning, the listing is returned as it is
EnrichStart ==
    /\ epc = "call"
    /\ IF listing.full_address = <<>>
       THEN epc' = "done"
       ELSE epc' = "lookups"
    /\ UNCHANGED <<listing, locIdx, distances, lookupLog>>
    /\ UNCHANGED <<cacheVars, nonEnrichVars>>

\* for location in self.locations: the loop goes on to the next location
\* whatever the lookup returned
NextLocationStopsOnFailure(i, data) ==
    IF data = NoneValue THEN Len(KeyLocations) + 1 ELSE i + 1
NextLocation(i, data) == i + 1

\* one iteration of the loop of get_distances_to_key_locations:
\* distances[location.slug] = self.get_travel_time(address, location.address,
\* location.travel_mode)
LookupLocation ==
    /\ epc = "lookups"
    /\ locIdx <= Len(KeyLocations)
    /\ loaded \in {"mapping", "null"}
    /\ \E loc \in {KeyLocations[locIdx]} :
       \E resp \in ApiResponses, io \in SaveOutcomes :
          /\ (FullyOk(resp) \/ io = "ok")
          /\ Call(<<listing.full_address, loc.address, loc.travel_mode>>, TRUE, resp, io)
          /\ lookupLog' = Append(lookupLog,
                                 <<listing.full_address, loc.address, loc.travel_mode>>)
          /\ IF raised'
             THEN /\ epc' = "raised"
                  /\ UNCHANGED <<distances, locIdx>>
             ELSE /\ epc' = epc
                  /\ distances' = [s \in DOMAIN distances \cup {loc.slug} |->
                                     IF s = loc.slug THEN ret' ELSE distances[s]]
                  /\ locIdx' = NextLocation(locIdx, ret')
    /\ UNCHANGED listing
    /\ UNCHANGED nonEnrichVars

\* if distance_data: setattr(listing, f"distance_{slug}_mins", duration_mins)
FieldAfterZeroIfAbsent(old, data) == IF data # NoneValue THEN data.duration_mins ELSE 0
FieldAfter(old, data) == IF data # NoneValue THEN data.duration_mins ELSE old

\* the loop is over, its result is returned and the listing is updated
UpdateListing ==
    /\ epc = "lookups"
    /\ locIdx > Len(KeyLocations)
    /\ listing' = [listing EXCEPT !.mins =
                      [s \in DOMAIN listing.mins |->
                          IF s \in DOMAIN distances
                          THEN FieldAfter(listing.mins[s], distances[s])
                          ELSE listing.mins[s]]]
    /\ epc' = "done"
    /\ UNCHANGED <<locIdx, distances, lookupLog>>
    /\ UNCHANGED <<cacheVars, nonEnrichVars>>

EnrichListing ==
    \/ EnrichStart
    \/ LookupLocation
    \/ UpdateListing

\* enrich_listing is called with a listing that has an address or none, whose
\* fields are unset or hold minutes of an earlier enrichment
InitEnrich ==
    /\ epc = "call"
    /\ listing \in [ full_address : { <<>>, <<"1", " ", "M">> },
                     mins : { [s \in Slugs |-> Unset],
                              [s \in Slugs |-> EarlierMins],
                              [s \in Slugs |-> IF s = "qvb" THEN EarlierMins ELSE Unset] } ]
    /\ locIdx = 1
    /\ distances = [s \in {} |-> NoneValue]
    /\ lookupLog = <<>>

\* enrich_listing is not running
IdleEnrich ==
    /\ epc = "idle"
    /\ listing = [full_address |-> <<>>, mins |-> [s \in Slugs |-> Unset]]
    /\ locIdx = 1
    /\ distances = [s \in {} |-> NoneValue]
    /\ lookupLog = <<>>

----------------------------------------------------------------------------
(* PropertySearchEngine.perform_search: the filter sequencer *)

\* locations tried: the first 0 .. MaxLocations of LocationNames
MaxLocations == 2

LocationNames == <<"Chatswood", "Lane Cove", "Greenwich", "Artarmon">>

\* selectors["property_types"] without "all", in the order of the dictionary
OtherTypes == <<"house", "apartment", "townhouse", "land", "retirement">>

\* SEARCH_CRITERIA, with the first MaxLocations locations
ConfiguredCriteria ==
    [ locations          |-> SubSeq(LocationNames, 1, MaxLocations),
      property_type      |-> "apartment",
      bedrooms           |-> 2,
      bathrooms          |-> 1,
      carports           |-> 1,
      price_min          |-> 0,
      price_max          |-> scenario_target,
      new_or_established |-> "established",
      keywords           |-> "brick" ]

\* criteria that ask for nothing
NoCriteria ==
    [ locations          |-> <<>>,
      property_type      |-> "all",
      bedrooms           |-> 0,
      bathrooms          |-> 0,
      carports           |-> 0,
      price_min          |-> 0,
      price_max          |-> 0,
      new_or_established |-> "any",
      keywords           |-> "" ]

AllCriteria ==
    [ locations          : {SubSeq(LocationNames, 1, n) : n \in 0..MaxLocations},
      property_type      : {"all", "apartment"},
      bedrooms           : {0, 2},
      bathrooms          : {0, 1},
      carports           : {0, 1},
      price_min          : {0, 250000},
      price_max          : {0, scenario_target},
      new_or_established : {"any", "established"},
      keywords           : {"", "brick"} ]

\* the configured criteria, the criteria that differ from them in one field or
\* in both price bounds, and the empty criteria
CriteriaTried ==
    { c \in AllCriteria :
        \/ c = NoCriteria
        \/ Cardinality({f \in DOMAIN c : c[f] # ConfiguredCriteria[f]}) <= 1
        \/ {f \in DOMAIN c : c[f] # ConfiguredCriteria[f]} = {"price_min", "price_max"} }

\* the elements of the page the sequencer looks for; at most one of them is
\* missing (or, for base_url and results_url, never loads)
Elements ==
    { "base_url", "mode_button", "location_input", "filters_button", "all",
      "house", "apartment", "townhouse", "land", "retirement",
      "bedroom_button", "bedrooms_exact", "bathroom_button", "carpark_button",
      "price_handle", "new_est_button", "new_est_option", "keywords_input",
      "search_button", "results_url" }

Click(el) == <<"click", el, "">>
Fill(el, value) == <<"fill", el, value>>

\* BrowserSession.click and BrowserSession.fill: page.click / page.fill with a
\* timeout, no exception handler. FirstBroken is the index of the first
\* interaction of acts that meets the missing element, 0 if none does.
FirstBroken(acts) ==
    IF \E i \in 1..Len(acts) : acts[i][2] = broken
    THEN CHOOSE i \in 1..Len(acts) :
            /\ acts[i][2] = broken
            /\ \A j \in 1..(i - 1) : acts[j][2] # broken
    ELSE 0

\* the interactions carried out before the exception, all of them if none raises
Performed(acts) ==
    IF FirstBroken(acts) = 0 THEN acts ELSE SubSeq(acts, 1, FirstBroken(acts) - 1)

\* the checkboxes of the filter panel: the property types and the exact-count
\* toggle of the bedrooms
Checkboxes ==
    { "all", "house", "apartment", "townhouse", "land", "retirement", "bedrooms_exact" }

\* the checkboxes clicked by acts
Clicked(acts) ==
    { acts[i][2] : i \in {j \in 1..Len(acts) :
                            acts[j][1] = "click" /\ acts[j][2] \in Checkboxes} }

\* the boxes checked after the clicks of acts: a click toggles its box
Toggled(chk, acts) == (chk \ Clicked(acts)) \cup (Clicked(acts) \ chk)

\* a step whose interactions are not guarded by any handler: the first failing
\* one raises out of the step and out of perform_search
UnguardedStep(here, next, acts) ==
    /\ pc = here
    /\ trace' = Append(trace, here)
    /\ uiActions' = uiActions \o Performed(acts)
    /\ checked' = Toggled(checked, Performed(acts))
    /\ pc' = IF FirstBroken(acts) = 0 THEN next ELSE "raised"
    /\ UNCHANGED <<criteria, broken, handles, searchLog>>
    /\ UNCHANGED nonSearchVars

\* session.goto(self.config.base_url): raises once its retries are used up
Goto == UnguardedStep("goto", "mode", << <<"goto", "base_url", "">> >>)

\* _select_mode: the mode is "buy", which has a selector
SelectMode == UnguardedStep("mode", "locations", << Click("mode_button") >>)

\* one cycle of _enter_locations
LocationCycle(location) ==
    << Click("location_input"), Fill("location_input", location),
       <<"press", "keyboard", "Enter">>, <<"wait", "page", "300">> >>

LocationCyclesFirstOnly(locations) ==
    IF locations = <<>> THEN <<>> ELSE LocationCycle(Head(locations))
RECURSIVE LocationCycles(_)
LocationCycles(locations) ==
    IF locations = <<>> THEN <<>>
    ELSE LocationCycle(Head(locations)) \o LocationCycles(Tail(locations))

EnterLocations ==
    UnguardedStep("locations", "open_filters", LocationCycles(criteria.locations))

OpenFilters == UnguardedStep("open_filters", "ptype", << Click("filters_button") >>)

\* The property-type step. A click on a checkbox toggles it.
\* 1. "All": is_checked() and the click are not guarded.
AllClicksNever(chk) == <<>>
AllClicks(chk) == IF "all" \in chk THEN << Click("all") >> ELSE <<>>

\* 2. the loop over the other types: is_checked() and the click sit in a try
\*    whose handler logs at debug level and goes on
Competing(t, target, chk) == t \in chk /\ t # target

RECURSIVE UncheckClicks(_, _, _)
UncheckClicks(types, target, chk) ==
    IF types = <<>> THEN <<>>
    ELSE (IF Head(types) # broken /\ Competing(Head(types), target, chk)
          THEN << Click(Head(types)) >> ELSE <<>>)
         \o UncheckClicks(Tail(types), target, chk)

RECURSIVE UncheckLog(_)
UncheckLog(types) ==
    IF types = <<>> THEN <<>>
    ELSE (IF Head(types) = broken
          THEN << <<"debug", "could not check state", Head(types)>> >> ELSE <<>>)
         \o UncheckLog(Tail(types))

\* 3. the requested type: is_checked() and the click are not guarded
TargetClicks(target, chk) == IF target \notin chk THEN << Click(target) >> ELSE <<>>

\* if not property_type or property_type == "all": return
NoTypeRequestedOnlyAbsent(property_type) == property_type = ""
NoTypeRequested(property_type) == property_type \in {"", "all"}

ApplyPropertyTypeFilter ==
    /\ pc = "ptype"
    /\ trace' = Append(trace, "ptype")
    /\ IF NoTypeRequested(criteria.property_type)
       THEN /\ pc' = "bedrooms"
            /\ UNCHANGED <<uiActions, checked, searchLog>>
       ELSE IF broken = "all"
       THEN /\ pc' = "raised"
            /\ UNCHANGED <<uiActions, checked, searchLog>>
       ELSE \E first \in {AllClicks(checked)} :
            \E second \in {UncheckClicks(OtherTypes, criteria.property_type, checked)} :
                IF broken = criteria.property_type
                THEN /\ pc' = "raised"
                     /\ uiActions' = uiActions \o first \o second
                     /\ checked' = Toggled(checked, first \o second)
                     /\ searchLog' = searchLog \o UncheckLog(OtherTypes)
                ELSE \E third \in {TargetClicks(criteria.property_type,
                                                Toggled(checked, first \o second))} :
                     /\ pc' = "bedrooms"
                     /\ uiActions' = uiActions \o first \o second \o third
                     /\ checked' = Toggled(checked, first \o second \o third)
                     /\ searchLog' = searchLog \o UncheckLog(OtherTypes)
    /\ UNCHANGED <<criteria, broken, handles>>
    /\ UNCHANGED nonSearchVars

\* _apply_bedroom_filter: the count button, then the exact-count toggle
ApplyBedroomFilter ==
    UnguardedStep("bedrooms", "bathrooms",
                  IF criteria.bedrooms = 0 THEN <<>>
                  ELSE << Click("bedroom_button"), Click("bedrooms_exact") >>)

ApplyBathroomFilterThenPrice ==
    UnguardedStep("bathrooms", "price",
                  IF criteria.bathrooms = 0 THEN <<>> ELSE << Click("bathroom_button") >>)

ApplyBathroomFilter ==
    UnguardedStep("bathrooms", "carpark",
                  IF criteria.bathrooms = 0 THEN <<>> ELSE << Click("bathroom_button") >>)

ApplyCarparkFilter ==
    UnguardedStep("carpark", "price",
                  IF criteria.carports = 0 THEN <<>> ELSE << Click("carpark_button") >>)

\* _apply_price_filter calls _set_price_slider_value for the min bound, then for
\* the max bound, skipping a bound that is 0. BeginBound is the call: the focus
\* on the handle raises if the handle is missing; otherwise the slider engine
\* above runs on that handle.
BeginBound(h, t) ==
    IF broken = "price_handle"
    THEN /\ pc' = "raised"
         /\ UNCHANGED <<uiActions, sliderVars>>
    ELSE /\ pc' = IF h = "min" THEN "price_min" ELSE "price_max"
         /\ uiActions' = Append(uiActions, <<"focus", "price_handle", h>>)
         /\ handle_type' = h
         /\ target_value' = t
         /\ aria_valuenow' = handles[h]
         /\ spc' = "call"
         /\ attempts' = 0
         /\ current_value' = 0
         /\ loopReads' = 0
         /\ stepCmds' = 0
         /\ lastKey' = "none"
         /\ final_value' = 0
         /\ finalReads' = 0
         /\ logged' = "none"
         /\ UNCHANGED <<stepFine, stepPage, erratic>>

\* if price_min: / if price_max: a bound that is 0 or absent is skipped
BoundSetAlways(target) == TRUE
BoundSet(target) == target # 0

ApplyPriceFilter ==
    /\ pc = "price"
    /\ trace' = Append(trace, "price")
    /\ IF ~BoundSet(criteria.price_min) /\ ~BoundSet(criteria.price_max)
       THEN /\ pc' = "new_est"
            /\ UNCHANGED <<uiActions, sliderVars>>
       ELSE IF BoundSet(criteria.price_min)
       THEN BeginBound("min", criteria.price_min)
       ELSE BeginBound("max", criteria.price_max)
    /\ UNCHANGED <<criteria, broken, checked, handles, searchLog>>
    /\ UNCHANGED <<cacheVars, enrichVars, otherVars>>

\* _set_price_slider_value has returned for the min bound
MinBoundReturns ==
    /\ pc = "price_min"
    /\ spc = "done"
    /\ handles' = [handles EXCEPT !["min"] = aria_valuenow]
    /\ IF BoundSet(criteria.price_max)
       THEN BeginBound("max", criteria.price_max)
       ELSE /\ pc' = "new_est"
            /\ spc' = "idle"
            /\ UNCHANGED <<uiActions, aria_valuenow, stepFine, stepPage, erratic,
                           handle_type, target_value, attempts, current_value,
                           loopReads, stepCmds, lastKey, final_value, finalReads,
                           logged>>
    /\ UNCHANGED <<criteria, broken, checked, searchLog, trace>>
    /\ UNCHANGED <<cacheVars, enrichVars, otherVars>>

\* _set_price_slider_value has returned for the max bound
MaxBoundReturns ==
    /\ pc = "price_max"
    /\ spc = "done"
    /\ handles' = [handles EXCEPT !["max"] = aria_valuenow]
    /\ pc' = "new_est"
    /\ spc' = "idle"
    /\ UNCHANGED <<criteria, broken, checked, searchLog, trace, uiActions>>
    /\ UNCHANGED <<aria_valuenow, stepFine, stepPage, erratic, handle_type,
                   target_value, attempts, current_value, loopReads, stepCmds,
                   lastKey, final_value, finalReads, logged>>
    /\ UNCHANGED <<cacheVars, enrichVars, otherVars>>

\* _apply_new_or_established_filter: the button click is not guarded; the click
\* on the option is, and its failure is logged as a warning
ApplyNewOrEstablishedFilter ==
    /\ pc = "new_est"
    /\ trace' = Append(trace, "new_est")
    /\ IF criteria.new_or_established = "any"
       THEN /\ pc' = "keywords"
            /\ UNCHANGED <<uiActions, searchLog>>
       ELSE IF broken = "new_est_button"
       THEN /\ pc' = "raised"
            /\ UNCHANGED <<uiActions, searchLog>>
       ELSE IF broken = "new_est_option"
       THEN /\ pc' = "keywords"
            /\ uiActions' = Append(uiActions, Click("new_est_button"))
            /\ searchLog' = Append(searchLog,
                                   <<"warning", "could not select", "new_est_option">>)
       ELSE /\ pc' = "keywords"
            /\ uiActions' = uiActions \o << Click("new_est_button"), Click("new_est_option") >>
            /\ UNCHANGED searchLog
    /\ UNCHANGED <<criteria, broken, checked, handles>>
    /\ UNCHANGED nonSearchVars

ApplyKeywordsFilter ==
    UnguardedStep("keywords", "submit",
                  IF criteria.keywords = "" THEN <<>>
                  ELSE << Fill("keywords_input", criteria.keywords) >>)

SubmitSearch == UnguardedStep("submit", "wait", << Click("search_button") >>)

\* _wait_for_results: wait_for_url in a try, whose handler waits for the load
\* state instead
WaitForResults ==
    /\ pc = "wait"
    /\ trace' = Append(trace, "wait")
    /\ uiActions' = uiActions \o
          (IF broken = "results_url" THEN << <<"wait_for_load_state", "page", "load">> >>
           ELSE << <<"wait_for_url", "results_url", "">> >>)
    /\ pc' = "save"
    /\ UNCHANGED <<criteria, broken, checked, handles, searchLog>>
    /\ UNCHANGED nonSearchVars

SaveResults ==
    UnguardedStep("save", "done", << <<"screenshot", "page", "output/search_results.png">> >>)

PerformSearch ==
    \/ Goto
    \/ SelectMode
    \/ EnterLocations
    \/ OpenFilters
    \/ ApplyPropertyTypeFilter
    \/ ApplyBedroomFilter
    \/ ApplyBathroomFilter
    \/ ApplyCarparkFilter
    \/ ApplyPriceFilter
    \/ MinBoundReturns
    \/ MaxBoundReturns
    \/ ApplyNewOrEstablishedFilter
    \/ ApplyKeywordsFilter
    \/ SubmitSearch
    \/ WaitForResults
    \/ SaveResults

\* perform_search is called on a freshly opened page: some boxes checked, the
\* two handles at the ends of the range, at most one element missing
CheckedAtStart == { {"all"}, {"house"}, {"house", "apartment"}, {} }

PageAtStart ==
    /\ criteria \in CriteriaTried
    /\ broken \in Elements \cup {"none"}
    /\ checked \in CheckedAtStart
    /\ handles = [min |-> 0, max |-> slider_max]
    /\ trace = <<>>
    /\ uiActions = <<>>
    /\ searchLog = <<>>

InitSearch == PageAtStart /\ pc = "goto"

\* A filter step run again: the caller invokes the step that ran last once
\* more, on the page as that run left it.
MaxStepRuns == 5

RepeatableSteps == {"mode", "ptype", "bedrooms", "bathrooms", "carpark"}

RunStepAgain ==
    /\ pc \notin {"idle", "raised", "done"}
    /\ trace # <<>>
    /\ Len(trace) < MaxStepRuns
    /\ trace[Len(trace)] \in RepeatableSteps
    /\ pc # trace[Len(trace)]
    /\ pc' = trace[Len(trace)]
    /\ UNCHANGED <<criteria, broken, checked, handles, trace, uiActions, searchLog>>
    /\ UNCHANGED nonSearchVars

\* the steps that set a filter by clicks, called one after the other and again
FilterSteps ==
    \/ SelectMode
    \/ ApplyPropertyTypeFilter
    \/ ApplyBedroomFilter
    \/ ApplyBathroomFilter
    \/ ApplyCarparkFilter
    \/ RunStepAgain

\* _apply_property_type_filter on any panel: any of the type boxes checked, any
\* type of the site, "all" or none requested, at most one box missing from the
\* page (a missing box is not checked)
TypeBoxes == {"all"} \cup {OtherTypes[i] : i \in 1..Len(OtherTypes)}
RequestedTypes == {"", "all"} \cup {OtherTypes[i] : i \in 1..Len(OtherTypes)}

PanelAtStart ==
    /\ criteria \in {[ConfiguredCriteria EXCEPT !.property_type = t] : t \in RequestedTypes}
    /\ checked \in SUBSET TypeBoxes
    /\ broken \in (TypeBoxes \ checked) \cup {"none"}
    /\ handles = [min |-> 0, max |-> slider_max]
    /\ pc = "ptype"
    /\ trace = <<>>
    /\ uiActions = <<>>
    /\ searchLog = <<>>

\* perform_search is not running
IdleSearch ==
    /\ criteria = NoCriteria
    /\ broken = "none"
    /\ checked = {}
    /\ handles = [min |-> 0, max |-> slider_max]
    /\ pc = "idle"
    /\ trace = <<>>
    /\ uiActions = <<>>
    /\ searchLog = <<>>

----------------------------------------------------------------------------
(* BrowserSession.goto (src/utils/browser.py) *)

\* goto is called with 1 .. MaxRetries retries; every caller uses the default, 3
MaxRetries == 4

\* wait_time: int = 3000
default_wait_time == 3000
\* self.page.wait_for_timeout(2000)  # Wait before retry
retry_wait == 2000

\* the exceptions page.goto raises
NavErrors == {"TimeoutError", "NetError"}

NoError == [attempt |-> -1, kind |-> "None"]

NoNav ==
    [gpc |-> "idle", retries |-> 0, attempt |-> 0, navCalls |-> 0,
     waits |-> <<>>, errors |-> <<>>, last_error |-> NoError, raisedError |-> NoError]

\* for attempt in range(retries)
MoreAttempts(attempt, retries) == attempt < retries

\* if attempt < retries - 1: warning, wait before the retry
WaitAfterEveryFailure(attempt, retries) == TRUE
WaitBeforeRetry(attempt, retries) == attempt < retries - 1

\* try: page.goto(url); page.wait_for_timeout(wait_time); return
GotoAttemptSucceeds ==
    /\ nav.gpc = "loop"
    /\ MoreAttempts(nav.attempt, nav.retries)
    /\ nav' = [nav EXCEPT !.navCalls = @ + 1,
                          !.waits = Append(@, default_wait_time),
                          !.gpc = "returned"]
    /\ UNCHANGED <<sliderVars, cacheVars, searchVars, enrichVars, peer, keyed>>

\* except Exception as e: last_error = e; wait if another attempt follows
GotoAttemptFails ==
    /\ nav.gpc = "loop"
    /\ MoreAttempts(nav.attempt, nav.retries)
    /\ \E e \in NavErrors :
          nav' = [nav EXCEPT !.navCalls = @ + 1,
                            !.errors = Append(@, e),
                            !.last_error = [attempt |-> nav.attempt, kind |-> e],
                            !.waits = IF WaitBeforeRetry(nav.attempt, nav.retries)
                                      THEN Append(@, retry_wait) ELSE @,
                            !.attempt = @ + 1]
    /\ UNCHANGED <<sliderVars, cacheVars, searchVars, enrichVars, peer, keyed>>

\* raise last_error; with no attempt made last_error is None and the raise
\* statement itself raises a TypeError
GotoRaises ==
    /\ nav.gpc = "loop"
    /\ ~MoreAttempts(nav.attempt, nav.retries)
    /\ nav' = [nav EXCEPT !.gpc = "raised",
                          !.raisedError = IF nav.last_error = NoError
                                          THEN [attempt |-> -1, kind |-> "TypeError"]
                                          ELSE nav.last_error]
    /\ UNCHANGED <<sliderVars, cacheVars, searchVars, enrichVars, peer, keyed>>

BrowserGoto ==
    \/ GotoAttemptSucceeds
    \/ GotoAttemptFails
    \/ GotoRaises

\* goto(url, wait_time, retries) is called
InitGoto ==
    \E r \in 1..MaxRetries : nav = [NoNav EXCEPT !.gpc = "loop", !.retries = r]

IdleGoto == nav = NoNav

----------------------------------------------------------------------------
(* Two runs, each with its own DistanceCalculator, sharing the cache file.
   cache and loaded are the memory of the run that is executing; peer holds
   the memory of the other run.  A call of get_travel_time is one step. *)

\* persisted: the <<run, key>> pairs such that the run has written the key's
\* entry to the file; lastFlush: the run whose _save_cache wrote the file last
NoPeer ==
    [run |-> "A", cache |-> EmptyMap, loaded |-> "no", persisted |-> {},
     lastFlush |-> "none"]
IdlePeer == peer = NoPeer

OtherRun(run) == IF run = "A" THEN "B" ELSE "A"

\* the scheduler lets the other run execute; no call is in progress
SwitchRun ==
    /\ peer' = [peer EXCEPT !.run = OtherRun(@), !.cache = cache, !.loaded = loaded]
    /\ cache' = peer.cache
    /\ loaded' = peer.loaded
    /\ ret' = NoneValue
    /\ raised' = FALSE
    /\ apiCalled' = FALSE
    /\ loglines' = <<>>
    /\ request' = NoRequest
    /\ response' = NoResponse
    /\ saveIo' = "none"
    /\ prevEntry' = NoneValue
    /\ UNCHANGED <<disk, writer>>
    /\ UNCHANGED <<sliderVars, searchVars, enrichVars, nav, keyed>>

\* the lookups of the two runs: two keys, the API answering a duration or
\* raising, the file system doing anything
TwoRunRequests == { r \in Requests : r[1] = <<"1", " ", "m">> }
TwoRunResponses ==
    { Resp(TRUE, "none", FALSE, "none", -1), Resp(FALSE, "OK", TRUE, "OK", 60) }

\* get_travel_time called by the run that is executing
RunLookup ==
    /\ loaded = "mapping"
    /\ \E r \in TwoRunRequests, resp \in TwoRunResponses, io \in SaveOutcomes :
          /\ (FullyOk(resp) \/ io = "ok")
          /\ Call(r, TRUE, resp, io)
    /\ peer' = [peer EXCEPT
                  !.persisted = IF saveIo' = "ok"
                                THEN @ \cup {<<peer.run, k>> : k \in DOMAIN cache'}
                                ELSE @,
                  !.lastFlush = IF saveIo' = "ok" THEN peer.run ELSE @]
    /\ UNCHANGED <<sliderVars, searchVars, enrichVars, nav, keyed>>

TwoRuns ==
    \/ Construct
    \/ RunLookup
    \/ SwitchRun

----------------------------------------------------------------------------
(* DistanceCalculator._get_cache_key as a function of two lookups *)

\* addresses tried: every string of at most MaxAddrLen characters over "m" and
\* the key's separator "|", and two strings with a capital and outer blanks
MaxAddrLen == 2

AddrChars == {"m", "|"}

Addresses ==
    UNION {[1..n -> AddrChars] : n \in 0..MaxAddrLen} \cup {<<"M">>, <<" ", "m", " ">>}

\* TravelMode values used by the key locations
Modes == {"transit", "driving"}

NoKeys == [a |-> NoRequest, b |-> NoRequest, ka |-> <<>>, kb |-> <<>>, done |-> FALSE]
IdleKeys == keyed = NoKeys

\* two lookups <<origin, destination, mode>> are about to be keyed
InitKeys ==
    \E a, b \in Addresses \X Addresses \X Modes :
        keyed = [NoKeys EXCEPT !.a = a, !.b = b]

\* cache_key = self._get_cache_key(origin, destination, mode_str), for both
ComputeKeys ==
    /\ ~keyed.done
    /\ keyed' = [keyed EXCEPT
                   !.ka = GetCacheKey(keyed.a[1], keyed.a[2], keyed.a[3]),
                   !.kb = GetCacheKey(keyed.b[1], keyed.b[2], keyed.b[3]),
                   !.done = TRUE]
    /\ UNCHANGED <<sliderVars, cacheVars, searchVars, enrichVars, nav, peer>>

----------------------------------------------------------------------------
(* Specifications *)

\* the other component stays as constructed
IdleCache ==
    /\ disk = [state |-> "missing", map |-> EmptyMap]
    /\ cache = EmptyMap
    /\ ret = NoneValue
    /\ raised = FALSE
    /\ apiCalled = FALSE
    /\ loglines = <<>>
    /\ request = NoRequest
    /\ response = NoResponse
    /\ saveIo = "none"
    /\ prevEntry = NoneValue
    /\ writer = [k \in {} |-> NoRequest]
    /\ loaded = "mapping"

IdleSlider == InitSliderWith(FALSE, {0}, {0}, {0}) /\ aria_valuenow = 0 /\ handle_type = "min"

Init == InitSliderWith(FALSE, FineSteps, PageSteps, Targets) /\ IdleCache /\ IdleSearch /\ IdleEnrich /\ IdleGoto /\ IdlePeer /\ IdleKeys

Next == SetPriceSliderValue

\* the slider engine against a control that honours the keys
Spec == Init /\ [][Next]_vars

\* an erratic control has no granularity; the targets are the ends of the range
\* and the scenario's 1,000,000
ErraticTargets == {0, large_step_threshold, slider_max}
InitErratic == InitSliderWith(TRUE, {0}, {0}, ErraticTargets) /\ IdleCache /\ IdleSearch /\ IdleEnrich /\ IdleGoto /\ IdlePeer /\ IdleKeys

\* the slider engine against a control that answers anything; the engine is a
\* sequential program, so it keeps taking steps until it returns
SpecErratic == InitErratic /\ [][Next]_vars /\ WF_vars(Next)

\* the distance calculator: any sequence of lookups
InitLookups == InitCache /\ IdleSlider /\ IdleSearch /\ IdleEnrich /\ IdleGoto /\ IdlePeer /\ IdleKeys

SpecCache == InitLookups /\ [][Lookup]_vars

\* the distance calculator from its construction on, over any cache file
InitLoad == InitBeforeLoad /\ IdleSlider /\ IdleSearch /\ IdleEnrich /\ IdleGoto /\ IdlePeer /\ IdleKeys

SpecLoad == InitLoad /\ [][Construct \/ Lookup]_vars

\* the slider before _apply_price_filter reaches it: a control that honours the
\* keys, with a fine step that does not move the handle, a small one, or one
\* that overshoots 250,000 by the tolerance
SliderNotCalled ==
    /\ erratic = FALSE
    /\ stepFine \in {0, 25000, 150000}
    /\ stepPage = 650000
    /\ aria_valuenow = 0
    /\ handle_type = "min"
    /\ target_value = 0
    /\ spc = "idle"
    /\ attempts = 0
    /\ current_value = 0
    /\ loopReads = 0
    /\ stepCmds = 0
    /\ lastKey = "none"
    /\ final_value = 0
    /\ finalReads = 0
    /\ logged = "none"

InitPerformSearch == InitSearch /\ SliderNotCalled /\ IdleCache /\ IdleEnrich /\ IdleGoto /\ IdlePeer /\ IdleKeys

NextSearch == PerformSearch \/ SetPriceSliderValue

\* one run of perform_search
SpecSearch == InitPerformSearch /\ [][NextSearch]_vars

\* one call of enrich_listing on a constructed calculator
InitEnrichListing == InitCache /\ InitEnrich /\ IdleSlider /\ IdleSearch /\ IdleGoto /\ IdlePeer /\ IdleKeys

SpecEnrich == InitEnrichListing /\ [][EnrichListing]_vars

InitSteps == PageAtStart /\ pc \in {"mode", "ptype"} /\ SliderNotCalled /\ IdleCache /\ IdleEnrich /\ IdleGoto /\ IdlePeer /\ IdleKeys

\* the filter steps, each possibly run again
SpecSteps == InitSteps /\ [][FilterSteps]_vars

\* one call of BrowserSession.goto; it is a sequential program, so it keeps
\* taking steps until it returns or raises
InitBrowserGoto ==
    InitGoto /\ IdleSlider /\ IdleCache /\ IdleSearch /\ IdleEnrich /\ IdlePeer /\ IdleKeys
SpecGoto == InitBrowserGoto /\ [][BrowserGoto]_vars /\ WF_vars(BrowserGoto)

\* two runs over one cache file, constructed and scheduled in any order
InitTwoRuns ==
    InitBeforeLoad /\ IdleSlider /\ IdleSearch /\ IdleEnrich /\ IdleGoto /\ IdlePeer /\ IdleKeys
SpecTwoRuns == InitTwoRuns /\ [][TwoRuns]_vars

\* one call of _apply_property_type_filter on any panel
InitPropertyType ==
    PanelAtStart /\ SliderNotCalled /\ IdleCache /\ IdleEnrich /\ IdleGoto /\ IdlePeer /\ IdleKeys
SpecPropertyType == InitPropertyType /\ [][ApplyPropertyTypeFilter]_vars

\* _get_cache_key applied to any two lookups
InitCacheKeys ==
    InitKeys /\ IdleSlider /\ IdleCache /\ IdleSearch /\ IdleEnrich /\ IdleGoto /\ IdlePeer
SpecKeys == InitCacheKeys /\ [][ComputeKeys]_vars

----------------------------------------------------------------------------
(* Claims about the price slider *)

\* C1: for any target in [0, max_value] and either bound, _set_price_slider_value
\* terminates whatever the control answers: the loop issues at most 200 step
\* commands, the final value is then read once, and it is logged as a success
\* exactly when it is within the tolerance of the target and as a warning
\* otherwise.
C1_TerminatesWithinBudget ==
    /\ [](stepCmds <= max_attempts)
    /\ [](spc # "done" => finalReads = 0 /\ logged = "none")
    /\ [](spc = "done" =>
            /\ finalReads = 1
            /\ logged \in {"success", "warning"}
            /\ (logged = "success") <=> (Abs(final_value - target_value) <= tolerance))
    /\ <>(spc = "done")

\* the budget was used up against an erratic control and the miss was logged
C1_Witness ==
    /\ erratic
    /\ spc = "done"
    /\ stepCmds = max_attempts
    /\ logged = "warning"

C2_Scenario == handle_type = "max" /\ target_value = scenario_target

\* C2 as stated: in the scenario the run ends with a final value within
\* +-50,000 of 1,000,000, whatever the control's granularity.
C2_Original ==
    (C2_Scenario /\ spc = "done") => Abs(final_value - scenario_target) <= tolerance

\* C2 (amended): in the scenario the engine starts at 13,000,000, sends
\* PageDown while the distance read is > 1,000,000 and ArrowLeft otherwise,
\* never a PageDown after an ArrowLeft; when the control's page step is at most
\* 1,000,000, its fine step is between 1 and 50,000 and the loop ended because
\* the target was reached, the final value is at or below 1,000,000 and within
\* 50,000 of it, and a success is logged.
C2_ScenarioConverges ==
    /\ [](C2_Scenario /\ spc = "loop" /\ stepCmds = 0 => aria_valuenow = slider_max)
    /\ [](C2_Scenario /\ spc = "loop" /\ stepCmds > 0 =>
            /\ lastKey \in {"PageDown", "ArrowLeft"}
            /\ (lastKey = "PageDown") <=> (current_value - scenario_target > large_step_threshold)
            /\ current_value > scenario_target)
    /\ [][C2_Scenario /\ lastKey = "ArrowLeft" => lastKey' = "ArrowLeft"]_vars
    /\ [](C2_Scenario /\ spc = "done"
            /\ stepPage <= large_step_threshold
            /\ stepFine >= 1 /\ stepFine <= tolerance
            /\ current_value <= scenario_target
          => /\ final_value <= scenario_target
             /\ scenario_target - final_value <= tolerance
             /\ logged = "success")

\* the scenario ran to its end through page steps and then fine steps
C2_Witness ==
    /\ C2_Scenario
    /\ spc = "done"
    /\ stepPage <= large_step_threshold
    /\ stepFine >= 1 /\ stepFine <= tolerance
    /\ lastKey = "ArrowLeft"
    /\ stepCmds > 17
    /\ logged = "success"

\* C3: during the max bound's decreasing loop each read of the slider value
\* is <= the read before it.
C3_MaxLoopReadsNeverIncrease ==
    [][(handle_type = "max" /\ spc = "loop" /\ loopReads = 1)
         => current_value' <= current_value]_vars

\* the max bound's loop has read a value below an earlier read
C3_Witness ==
    /\ handle_type = "max"
    /\ spc = "loop"
    /\ loopReads = 1
    /\ stepCmds >= 2
    /\ aria_valuenow < current_value
    /\ current_value < slider_max

----------------------------------------------------------------------------
(* Claims about the travel-time cache *)

LastKey == GetCacheKey(request[1], request[2], request[3])

Called == request # NoRequest

\* C4: when use_cache is true and the key is in the cache, get_travel_time
\* returns the cached entry, does not call the distance API and writes neither
\* the cache nor the file.
C4_HitReturnsCachedWithoutApi ==
    [][(request'[4] /\ GetCacheKey(request'[1], request'[2], request'[3]) \in DOMAIN cache)
         => /\ ret' = cache[GetCacheKey(request'[1], request'[2], request'[3])]
            /\ ~apiCalled'
            /\ ~raised'
            /\ cache' = cache
            /\ disk' = disk]_vars

\* a lookup was answered from the cache
C4_Witness ==
    /\ Called
    /\ request[4]
    /\ ~apiCalled
    /\ prevEntry # NoneValue
    /\ ret = prevEntry

NonOkElement(resp) ==
    /\ ~resp.raises /\ resp.status = "OK" /\ resp.rows
    /\ resp.elem \notin {"OK", "none"}

\* C5: if the distance API returns a non-OK element status, get_travel_time
\* returns None and writes no cache entry, neither in memory nor on disk.
C5_NonOkElementGivesNoneAndNoWrite ==
    [][(apiCalled' /\ NonOkElement(response'))
         => /\ ret' = NoneValue
            /\ ~raised'
            /\ cache' = cache
            /\ disk' = disk]_vars

\* the API answered NOT_FOUND for a key that had no entry, and it still has none
C5_Witness ==
    /\ apiCalled
    /\ NonOkElement(response)
    /\ ret = NoneValue
    /\ LastKey \notin DOMAIN cache
    /\ loglines = <<"warning: calculation failed">>

\* the lookup failed: the API raised or answered anything but a full result, or
\* the cache could not be saved because os.makedirs raised
LookupFailed(resp, io) == ~FullyOk(resp) \/ io = "makedirs_raises"

C7_WritesOnlyAfterSuccess ==
    /\ [][DOMAIN cache \subseteq DOMAIN cache']_vars
    /\ [][(cache' # cache \/ disk' # disk) => (apiCalled' /\ FullyOk(response'))]_vars
    /\ [][\A k \in DOMAIN cache' :
            (k \notin DOMAIN cache \/ cache'[k] # cache[k])
              => /\ k = GetCacheKey(request'[1], request'[2], request'[3])
                 /\ apiCalled' /\ FullyOk(response')
                 /\ cache'[k] = DistanceData(response'.secs, request'[3])]_vars

\* a lookup of a key that has an entry failed and the entry is as it was, beside
\* another entry
C7_Witness ==
    /\ apiCalled
    /\ ~FullyOk(response)
    /\ prevEntry # NoneValue
    /\ LastKey \in DOMAIN cache
    /\ cache[LastKey] = prevEntry
    /\ Cardinality(DOMAIN cache) = 2

\* the same letter, up to case
SameLetter(a, b) == a = b \/ {a, b} \in {{"M", "m"}, {"H", "h"}}

\* s and t differ only in letter case and in leading and trailing whitespace
EquivCaseWs(s, t) ==
    \E i1 \in 0..Len(s), j1 \in 0..Len(s), i2 \in 0..Len(t), j2 \in 0..Len(t) :
        /\ i1 + j1 <= Len(s) /\ i2 + j2 <= Len(t)
        /\ \A k \in 1..i1 : IsSpace(s[k])
        /\ \A k \in (Len(s) - j1 + 1)..Len(s) : IsSpace(s[k])
        /\ \A k \in 1..i2 : IsSpace(t[k])
        /\ \A k \in (Len(t) - j2 + 1)..Len(t) : IsSpace(t[k])
        /\ Len(s) - i1 - j1 = Len(t) - i2 - j2
        /\ \A k \in 1..(Len(s) - i1 - j1) : SameLetter(s[i1 + k], t[i2 + k])

\* C8: a lookup whose origin and destination differ only in letter case and
\* outer whitespace from those of the lookup that stored an entry, with the
\* same mode, is a cache hit on that entry.
C8_NormalizedLookupsShareEntry ==
    [][\A k \in DOMAIN cache :
          (/\ request'[4]
           /\ request'[3] = writer[k][3]
           /\ EquivCaseWs(request'[1], writer[k][1])
           /\ EquivCaseWs(request'[2], writer[k][2]))
          => /\ ~apiCalled'
             /\ ret' = cache[k]
             /\ cache' = cache]_vars

\* "1 m" -> " h" was answered from the entry that "1 M " -> "H" stored
C8_Witness ==
    /\ request = << <<"1", " ", "m">>, <<" ", "h">>, "transit", TRUE >>
    /\ ~apiCalled
    /\ LastKey \in DOMAIN cache
    /\ writer[LastKey] = << <<"1", " ", "M", " ">>, <<"H">>, "transit" >>
    /\ ret = cache[LastKey]

\* C9: writing the same key twice with the same value leaves the mapping, in
\* memory and on disk, as the first write left it, and the second write
\* returns what a read after the first one returned.
C9_RewriteSameValueChangesNothing ==
    [][(/\ apiCalled' /\ FullyOk(response')
        /\ EntryOf(cache, GetCacheKey(request'[1], request'[2], request'[3]))
             = DistanceData(response'.secs, request'[3]))
         => /\ cache' = cache
            /\ (saveIo' = "ok" /\ disk = [state |-> "json", map |-> cache])
                 => /\ disk' = disk
                    /\ ret' = cache[GetCacheKey(request'[1], request'[2], request'[3])]]_vars

\* an entry was written again with the value it had, beside another entry
C9_Witness ==
    /\ apiCalled /\ FullyOk(response) /\ saveIo = "ok"
    /\ prevEntry = ret
    /\ ret # NoneValue
    /\ Cardinality(DOMAIN cache) = 2
    /\ disk = [state |-> "json", map |-> cache]

----------------------------------------------------------------------------
(* Claims about the filter sequencer *)

\* the elements the filter steps (property type .. keywords) act on
FilterElements ==
    { "all", "house", "apartment", "townhouse", "land", "retirement",
      "bedroom_button", "bedrooms_exact", "bathroom_button", "carpark_button",
      "price_handle", "new_est_button", "new_est_option", "keywords_input" }

Started(step) == \E i \in 1..Len(trace) : trace[i] = step

\* C10: when a filter step cannot find or interact with its target element,
\* the failure is caught, no exception leaves perform_search, and the remaining
\* steps, through submit and wait-for-results, still run.
C10_FilterFailureNeverAborts ==
    broken \in FilterElements
      => /\ pc # "raised"
         /\ pc \in {"save", "done"} => Started("submit") /\ Started("wait")

InUi(act) == \E i \in 1..Len(uiActions) : uiActions[i] = act

\* the property-type step ran to its end in this step
PropertyTypeApplied == pc = "ptype" /\ pc' = "bedrooms"

\* C11: with "All" checked and every type unchecked, applying the
\* property-type filter for "apartment" leaves exactly "apartment" checked:
\* All unchecked, house, townhouse, land and retirement still unchecked.
C11_AllCheckedThenOnlyApartment ==
    [][(PropertyTypeApplied /\ checked = {"all"} /\ criteria.property_type = "apartment")
         => /\ checked' = {"apartment"}
            /\ uiActions' = uiActions \o << Click("all"), Click("apartment") >>]_vars

\* the scenario has run: All was clicked off, apartment was clicked on
C11_Witness ==
    /\ pc = "bedrooms"
    /\ criteria.property_type = "apartment"
    /\ checked = {"apartment"}
    /\ InUi(Click("all"))
    /\ InUi(Click("apartment"))

\* the interactions carried out by the step taken
Added == SubSeq(uiActions', Len(uiActions) + 1, Len(uiActions'))

\* C12: for N requested locations the sequencer issues exactly N
\* focus/fill/confirm cycles on the location field, one per location in input
\* order, each followed by a settle pause; for an empty list it issues none.
C12_OneCyclePerLocationInOrder ==
    [][(pc = "locations" /\ pc' = "open_filters")
         => /\ Len(Added) = 4 * Len(criteria.locations)
            /\ \A i \in 1..Len(criteria.locations) :
                  /\ Added[4 * i - 3] = <<"click", "location_input", "">>
                  /\ Added[4 * i - 2] = <<"fill", "location_input", criteria.locations[i]>>
                  /\ Added[4 * i - 1] = <<"press", "keyboard", "Enter">>
                  /\ Added[4 * i] = <<"wait", "page", "300">>]_vars

\* two locations were entered, Chatswood before Lane Cove
C12_Witness ==
    /\ pc = "open_filters"
    /\ Len(criteria.locations) >= 2
    /\ \E i, j \in 1..Len(uiActions) :
          /\ i < j
          /\ uiActions[i] = <<"fill", "location_input", "Chatswood">>
          /\ uiActions[j] = <<"fill", "location_input", "Lane Cove">>

\* the steps of perform_search in the order of its body: navigation first, then
\* mode, locations, filter panel, the seven filters, submit, wait, and the save
StepOrder ==
    << "goto", "mode", "locations", "open_filters", "ptype", "bedrooms",
       "bathrooms", "carpark", "price", "new_est", "keywords", "submit", "wait",
       "save" >>

\* C13: perform_search runs its steps in one fixed order, each once: the steps
\* started so far are always an initial part of the order, a run that returns
\* has run every step exactly once, and no step starts while the price step's
\* slider call is still running.
C13_StepsInFixedOrderOnce ==
    /\ [](Len(trace) <= Len(StepOrder) /\ trace = SubSeq(StepOrder, 1, Len(trace)))
    /\ [](pc = "done" => trace = StepOrder)
    /\ [][trace' # trace => (spc = "idle" /\ trace' = Append(trace, pc))]_vars

\* a run of perform_search returned after all its steps
C13_Witness ==
    /\ pc = "done"
    /\ trace = StepOrder
    /\ criteria = ConfiguredCriteria

\* the step taken is a second run of the step that ran last
SecondRun ==
    /\ trace # <<>>
    /\ trace' = Append(trace, trace[Len(trace)])
    /\ pc' # "raised"

\* C14: a filter step (mode, property type, bedrooms with the exact-count
\* toggle, bathrooms, parking) run a second time with the same criteria on the
\* page the first run left issues no interaction and leaves the page unchanged.
C14_SecondRunIssuesNothing ==
    [][SecondRun => (uiActions' = uiActions /\ checked' = checked)]_vars

----------------------------------------------------------------------------
(* Claims about loading and saving the cache *)

\* C15: if the cache file is missing, unreadable or corrupt (not a valid stored
\* mapping), construction does not fail, the in-memory cache starts as the
\* empty mapping, and no later lookup fails because of it.
C15_LoadFailsSoft ==
    /\ loaded # "failed"
    /\ loaded # "null"
    /\ ~raised
    /\ (loaded = "mapping" /\ request = NoRequest /\ disk.state # "json")
         => cache = EmptyMap

\* the mapping a new run would load from the file
OnDisk == LoadCache(disk)

\* C16: whenever get_travel_time has returned, the mapping on disk equals the
\* mapping in memory, so no entry of a successful lookup is lost when the
\* program terminates abruptly.
C16_DiskEqualsMemoryOnReturn ==
    (Called /\ ~raised) => OnDisk = cache

\* the last lookup was answered in full by the API and its save did not succeed
SaveFailed == apiCalled /\ FullyOk(response) /\ saveIo \notin {"ok", "none"}

\* C17: when the cache file or its directory cannot be written, the failure is
\* logged and not fatal: the successful lookup still returns its duration and
\* the entry stays in the in-memory cache.
C17_UnwritableCacheStillReturnsDuration ==
    SaveFailed
      => /\ ~raised
         /\ loglines # <<>>
         /\ ret = DistanceData(response.secs, request[3])
         /\ EntryOf(cache, LastKey) = DistanceData(response.secs, request[3])

----------------------------------------------------------------------------
(* Claims about the price step of the sequencer *)

\* a command has gone to the handle of bound h: it was focused, or
\* _set_price_slider_value is running on it
Commanded(h) ==
    \/ InUi(<<"focus", "price_handle", h>>)
    \/ (spc # "idle" /\ handle_type = h)

\* C18: a price bound whose target is zero or absent gets no command on its
\* handle (no focus, no jump to the extreme, no step) and keeps its value,
\* whether or not the other bound is set.
C18_UnsetBoundIsSkipped ==
    /\ criteria.price_min = 0 => (~Commanded("min") /\ handles["min"] = 0)
    /\ criteria.price_max = 0 => (~Commanded("max") /\ handles["max"] = slider_max)

\* the price step is over: the max bound was moved and the unset min bound was
\* left alone
C18_Witness ==
    /\ pc = "new_est"
    /\ criteria.price_min = 0
    /\ criteria.price_max # 0
    /\ Commanded("max")
    /\ handles["max"] # slider_max
    /\ handles["min"] = 0

\* the price step is over: the min bound was moved and the unset max bound was
\* left alone
C18_WitnessMinOnly ==
    /\ pc = "new_est"
    /\ criteria.price_min # 0
    /\ criteria.price_max = 0
    /\ Commanded("min")
    /\ handles["min"] # 0
    /\ handles["max"] = slider_max

\* C19: when the adjustment loop has ended, by convergence or by exhausting
\* the budget, the final value is read once and compared with the target:
\* success is logged iff |final - target| <= 50,000, a warning otherwise;
\* nothing is raised and the sequencer goes on to the next bound or step.
C19_FinalCheckLogsAndGoesOn ==
    /\ [](spc = "done"
            => /\ finalReads = 1
               /\ logged \in {"success", "warning"}
               /\ (logged = "success") <=> (Abs(final_value - target_value) <= 50000))
    /\ [](spc \in {"call", "loop", "verify"} => logged = "none")
    /\ [][spc = "verify" => (spc' = "done" /\ final_value' = ReadValueNow(aria_valuenow))]_vars
    /\ [][(spc = "done" /\ pc \in {"price_min", "price_max"})
            => pc' \in {pc, "price_max", "new_est"}]_vars
    /\ [](pc = "raised" => spc = "idle")

\* the budget was exhausted, a warning was logged and the sequencer went on
C19_Witness ==
    /\ Started("new_est")
    /\ attempts = max_attempts
    /\ logged = "warning"
    /\ pc # "raised"

\* the loop converged onto a value exactly 50,000 past the target: success
C19_WitnessAtTolerance ==
    /\ Started("new_est")
    /\ attempts < max_attempts
    /\ logged = "success"
    /\ Abs(final_value - target_value) = tolerance

----------------------------------------------------------------------------
(* Claims about the enrichment *)

\* C20: for each location whose lookup returned absent, enrich_listing leaves
\* the listing's distance_<slug>_mins field as it was (never zero), raises
\* nothing, and still populates the fields of the locations whose lookups
\* succeeded.
C20_AbsentLookupLeavesFieldUnchanged ==
    /\ [](epc # "raised")
    /\ [][(epc = "lookups" /\ epc' = "done")
            => \A s \in Slugs :
                  /\ s \in DOMAIN distances
                  /\ distances[s] = NoneValue => listing'.mins[s] = listing.mins[s]
                  /\ distances[s] # NoneValue
                       => listing'.mins[s] = distances[s].duration_mins]_vars
    /\ [][(epc # "lookups" \/ epc' # "done") => listing' = listing]_vars

\* the lookup for qvb was absent and its field still holds the earlier minutes;
\* the lookup for rnsh succeeded and its field holds the new minutes
C20_Witness ==
    /\ epc = "done"
    /\ DOMAIN distances = Slugs
    /\ distances["qvb"] = NoneValue
    /\ listing.mins["qvb"] = EarlierMins
    /\ distances["rnsh"] # NoneValue
    /\ listing.mins["rnsh"] = distances["rnsh"].duration_mins
    /\ listing.mins["bella_vista"] = Unset

----------------------------------------------------------------------------
(* Claims about the slider loop's iterations *)

\* the value a loop iteration reads has reached or passed the target
C21_ReadReached ==
    IF handle_type = "max"
    THEN ReadValueNow(aria_valuenow) <= target_value
    ELSE ReadValueNow(aria_valuenow) >= target_value

\* C21: every loop iteration reads the current value first; when the value
\* read has reached or passed the target (>= for the min bound, <= for the max
\* bound) the loop ends without a command (no key, the page untouched); a step
\* command is issued only in an iteration whose read, taken before the
\* command, is strictly short of the target.
C21_ReadThenBreakOrPress ==
    /\ [][(spc = "loop" /\ attempts < max_attempts)
            => /\ current_value' = ReadValueNow(aria_valuenow)
               /\ loopReads' = 1]_vars
    /\ [][(spc = "loop" /\ attempts < max_attempts /\ C21_ReadReached)
            => /\ spc' = "verify"
               /\ stepCmds' = stepCmds
               /\ lastKey' = lastKey
               /\ aria_valuenow' = aria_valuenow]_vars
    /\ [][stepCmds' # stepCmds
            => /\ spc = "loop"
               /\ stepCmds' = stepCmds + 1
               /\ current_value' = ReadValueNow(aria_valuenow)
               /\ ~C21_ReadReached]_vars

\* after some step commands the loop read exactly the target and ended, the
\* last command being the one before that read
C21_Witness ==
    /\ spc = "verify"
    /\ loopReads = 1
    /\ stepCmds >= 2
    /\ current_value = target_value
    /\ aria_valuenow = target_value
    /\ attempts = stepCmds

\* C22: the step command of an iteration is the page key in the direction of
\* travel (PageDown for max, PageUp for min) exactly when the distance between
\* the value read and the target is strictly greater than 1,000,000, and the
\* arrow key in that direction (ArrowLeft, ArrowRight) otherwise, a distance
\* of exactly 1,000,000 included; no key of the opposite direction is ever
\* sent as a step.
C22_PageIffFartherThanThreshold ==
    /\ [][stepCmds' # stepCmds
            => IF handle_type = "max"
               THEN /\ lastKey' \in {"PageDown", "ArrowLeft"}
                    /\ (lastKey' = "PageDown")
                         <=> (current_value' - target_value > large_step_threshold)
               ELSE /\ lastKey' \in {"PageUp", "ArrowRight"}
                    /\ (lastKey' = "PageUp")
                         <=> (target_value - current_value' > large_step_threshold)]_vars
    /\ [](handle_type = "max" => lastKey \in {"none", "End", "PageDown", "ArrowLeft"})
    /\ [](handle_type = "min" => lastKey \in {"none", "Home", "PageUp", "ArrowRight"})

\* the max bound read a value exactly 1,000,000 above its target and answered
\* with the arrow key
C22_Witness ==
    /\ handle_type = "max"
    /\ spc = "loop"
    /\ stepCmds = 1
    /\ current_value - target_value = large_step_threshold
    /\ lastKey = "ArrowLeft"

\* the min bound read a value more than 1,000,000 below its target and answered
\* with the page key
C22_WitnessPage ==
    /\ handle_type = "min"
    /\ spc = "loop"
    /\ stepCmds >= 1
    /\ target_value - current_value > large_step_threshold
    /\ lastKey = "PageUp"

----------------------------------------------------------------------------
(* Claims about the order of the commands of the price step *)

\* the last interaction with the page recorded so far is the focus on handle h
C23_JustFocused(h) ==
    /\ uiActions # <<>>
    /\ uiActions[Len(uiActions)] = <<"focus", "price_handle", h>>

\* C23: for each bound that is processed the jump to the extreme (Home for the
\* min bound, End for the max bound) is sent exactly once: only from the start
\* of the call, after the focus on the handle and before any loop read or step
\* command of that bound, and the call is entered once per focus; when both
\* bounds are set, the max bound starts only when the min bound has been
\* processed to its end (final read done, result logged).
C23_ExtremeOnceMinBeforeMax ==
    /\ [][(lastKey' \in {"Home", "End"} /\ lastKey' # lastKey)
            => /\ spc = "call" /\ spc' = "loop"
               /\ lastKey = "none"
               /\ loopReads = 0 /\ stepCmds = 0
               /\ loopReads' = 0 /\ stepCmds' = 0
               /\ lastKey' = (IF handle_type = "min" THEN "Home" ELSE "End")
               /\ C23_JustFocused(handle_type)]_vars
    /\ [][spc = "call" => lastKey' \in {"Home", "End"}]_vars
    /\ [][(spc' = "call" /\ (spc # "call" \/ handle_type' # handle_type))
            => /\ uiActions' = Append(uiActions, <<"focus", "price_handle", handle_type'>>)
               /\ ~InUi(<<"focus", "price_handle", handle_type'>>)
               /\ lastKey' = "none"]_vars
    /\ [](spc \in {"loop", "verify", "done"} /\ stepCmds = 0
            => lastKey = (IF handle_type = "min" THEN "Home" ELSE "End"))
    /\ [][(criteria.price_min # 0 /\ criteria.price_max # 0
             /\ handle_type' = "max" /\ spc' = "call")
            => /\ handle_type = "min"
               /\ spc = "done"
               /\ finalReads = 1
               /\ logged # "none"
               /\ InUi(<<"focus", "price_handle", "min">>)]_vars
    /\ [](criteria.price_min # 0 /\ criteria.price_max # 0 /\ handle_type = "min"
            => ~InUi(<<"focus", "price_handle", "max">>))

\* both bounds are set: the min bound was processed to its end and the max
\* bound has been focused and sent to its upper extreme, no loop read yet
C23_Witness ==
    /\ criteria.price_min # 0
    /\ criteria.price_max # 0
    /\ pc = "price_max"
    /\ handle_type = "max"
    /\ spc = "loop"
    /\ lastKey = "End"
    /\ loopReads = 0
    /\ stepCmds = 0
    /\ handles["min"] >= criteria.price_min
    /\ InUi(<<"focus", "price_handle", "min">>)
    /\ C23_JustFocused("max")

----------------------------------------------------------------------------
(* Claims about the lookups of one listing *)

\* the lookup get_distances_to_key_locations makes for the i-th location
C24_LookupOf(i) ==
    <<listing.full_address, KeyLocations[i].address, KeyLocations[i].travel_mode>>

\* C24: get_distances_to_key_locations calls get_travel_time exactly once per
\* configured location, in configuration order and with that location's own
\* travel mode; each call's result (absent for a failed lookup) becomes the
\* entry of that location's slug, so the mapping returned has exactly one
\* entry per slug; a failed lookup is not repeated and the lookups of the
\* remaining locations still happen.
C24_OneLookupPerLocationInOrder ==
    /\ [](epc = "lookups"
            => /\ locIdx \in 1..(Len(KeyLocations) + 1)
               /\ lookupLog = [i \in 1..(locIdx - 1) |-> C24_LookupOf(i)]
               /\ DOMAIN distances = {KeyLocations[i].slug : i \in 1..(locIdx - 1)})
    /\ [][lookupLog' # lookupLog
            => /\ distances'[KeyLocations[locIdx].slug] = ret'
               /\ \A s \in DOMAIN distances : distances'[s] = distances[s]]_vars
    /\ [][(epc = "lookups" /\ epc' # "lookups")
            => /\ epc' = "done"
               /\ Len(lookupLog) = Len(KeyLocations)
               /\ DOMAIN distances = Slugs
               /\ lookupLog' = lookupLog
               /\ distances' = distances]_vars
    /\ [][epc = "done" => (lookupLog' = lookupLog /\ distances' = distances)]_vars

\* the first location's lookup failed and the other two were still made, each
\* once, the last one by car
C24_Witness ==
    /\ epc = "done"
    /\ Len(lookupLog) = 3
    /\ lookupLog[3][3] = "driving"
    /\ DOMAIN distances = Slugs
    /\ distances["rnsh"] = NoneValue
    /\ distances["qvb"] # NoneValue
    /\ distances["bella_vista"] # NoneValue

----------------------------------------------------------------------------
(* Claims about the navigation *)

\* C25: goto makes at most `retries` navigation attempts and ends; it returns
\* right after the first attempt that succeeds, with no attempt after it; the
\* 2,000 ms delay is waited once after each failed attempt but the last; when
\* all `retries` attempts have failed it raises the error of the last attempt.
C25_GotoRetriesBounded ==
    /\ [](nav.navCalls <= nav.retries)
    /\ [](nav.navCalls = Len(nav.errors) + (IF nav.gpc = "returned" THEN 1 ELSE 0))
    /\ [](nav.gpc = "returned"
            => nav.waits = [i \in 1..nav.navCalls |->
                              IF i < nav.navCalls THEN retry_wait ELSE default_wait_time])
    /\ [](nav.gpc = "loop"
            => nav.waits = [i \in 1..Min2(nav.navCalls, nav.retries - 1) |-> retry_wait])
    /\ [](nav.gpc = "raised"
            => /\ nav.navCalls = nav.retries
               /\ nav.waits = [i \in 1..(nav.retries - 1) |-> retry_wait]
               /\ nav.raisedError
                    = [attempt |-> nav.retries - 1, kind |-> nav.errors[nav.retries]])
    /\ [][nav.gpc \in {"returned", "raised"} => nav' = nav]_vars
    /\ <>(nav.gpc \in {"returned", "raised"})

\* three attempts failed with two delays between them, and the error raised is
\* the third attempt's, which differs from the first attempt's
C25_Witness ==
    /\ nav.gpc = "raised"
    /\ nav.retries = 3
    /\ nav.navCalls = 3
    /\ nav.waits = <<retry_wait, retry_wait>>
    /\ nav.errors[1] = "TimeoutError"
    /\ nav.raisedError = [attempt |-> 2, kind |-> "NetError"]

\* the third attempt succeeded after two failures and goto returned
C25_WitnessReturned ==
    /\ nav.gpc = "returned"
    /\ nav.retries = 3
    /\ nav.navCalls = 3
    /\ nav.waits = <<retry_wait, retry_wait, default_wait_time>>

----------------------------------------------------------------------------
(* Claims about two runs sharing the cache file *)

\* the run that is executing has just written the file
C26_JustFlushed == apiCalled /\ saveIo = "ok"

\* C26: nothing protects the cache file against a second writer. A run's
\* flush writes exactly that run's in-memory mapping, whatever the file held;
\* so a key that one run has persisted and that is missing from a valid file
\* was dropped by a flush of the other run. The interleaving in which that
\* happens is the one C26_Witness describes.
C26_FlushOverwritesOtherRun ==
    /\ C26_JustFlushed => disk = [state |-> "json", map |-> cache]
    /\ \A p \in peer.persisted :
          (disk.state = "json" /\ p[2] \notin DOMAIN disk.map)
            => /\ peer.lastFlush = OtherRun(p[1])
               /\ p[2] \in DOMAIN (IF p[1] = peer.run THEN cache ELSE peer.cache)

\* the run that is executing has just flushed its whole mapping, and an entry
\* the other run had persisted, and still holds in memory, is no longer in the
\* file
C26_Witness ==
    /\ C26_JustFlushed
    /\ disk = [state |-> "json", map |-> cache]
    /\ cache # EmptyMap
    /\ \E p \in peer.persisted :
          /\ p[1] = OtherRun(peer.run)
          /\ p[2] \in DOMAIN peer.cache
          /\ p[2] \notin DOMAIN disk.map

----------------------------------------------------------------------------
(* Claims about the property-type step on any panel *)

\* the place of a click in the step's order: All, then competing types, then
\* the requested type
C27_Rank(act, requested) ==
    IF act[2] = "all" THEN 1 ELSE IF act[2] = requested THEN 3 ELSE 2

\* C27: whatever type boxes are checked at the start and whichever type of the
\* site is requested, when _apply_property_type_filter has returned exactly
\* the requested type is checked (All and every other type unchecked); the
\* step only clicks type boxes, each at most once, All first, competing types
\* next, the requested type last; when no type or "all" is requested the step
\* clicks nothing.
C27_AnyPanelEndsWithRequestedOnly ==
    [][pc = "ptype"
         => IF criteria.property_type \in {"", "all"}
            THEN /\ uiActions' = uiActions
                 /\ checked' = checked
            ELSE /\ pc' = "bedrooms" => checked' = {criteria.property_type}
                 /\ \A i \in 1..Len(uiActions') :
                       /\ uiActions'[i][1] = "click"
                       /\ uiActions'[i][2] \in TypeBoxes
                 /\ \A i, j \in 1..Len(uiActions') :
                       i < j =>
                         /\ uiActions'[i][2] # uiActions'[j][2]
                         /\ C27_Rank(uiActions'[i], criteria.property_type)
                              <= C27_Rank(uiActions'[j], criteria.property_type)]_vars

\* All and two competing types were checked: All was clicked off first, then
\* house and land, then townhouse was clicked on, and only townhouse is checked
C27_Witness ==
    /\ pc = "bedrooms"
    /\ criteria.property_type = "townhouse"
    /\ uiActions = << Click("all"), Click("house"), Click("land"), Click("townhouse") >>
    /\ checked = {"townhouse"}

\* "all" was requested on a panel with two types checked: nothing was clicked
C27_WitnessAllRequested ==
    /\ pc = "bedrooms"
    /\ criteria.property_type = "all"
    /\ uiActions = <<>>
    /\ checked = {"house", "land"}

----------------------------------------------------------------------------
(* Claims about the overshoot of the slider loop *)

\* how far value v lies past the target in the bound's direction of travel
\* (negative: still short of it)
C28_Past(v) == IF handle_type = "max" THEN target_value - v ELSE v - target_value

\* the loop ended because a read had reached the target
C28_ExitedOnReach == spc \in {"verify", "done"} /\ C28_Past(current_value) >= 0

\* C28: when the control moves by at most 1,000,000 per page step and by at
\* most F (its fine step) per arrow step, a page step never carries the value
\* past the target, and when the loop has ended because the target was reached
\* the final value is on the target or past it by less than F.
C28_OvershootBelowFineStep ==
    /\ [][(stepPage <= large_step_threshold
             /\ stepCmds' # stepCmds /\ lastKey' \in {"PageDown", "PageUp"})
            => C28_Past(ReadValueNow(aria_valuenow')) <= 0]_vars
    /\ []((stepPage <= large_step_threshold /\ C28_ExitedOnReach /\ spc = "done")
            => \/ final_value = target_value
               \/ (C28_Past(final_value) > 0 /\ C28_Past(final_value) < stepFine))

\* page steps and then arrow steps of 125,000 brought the max bound from
\* 13,000,000 past its target of 250,000, by less than one arrow step
C28_Witness ==
    /\ spc = "done"
    /\ handle_type = "max"
    /\ stepPage <= large_step_threshold
    /\ C28_ExitedOnReach
    /\ stepCmds > 2
    /\ lastKey = "ArrowLeft"
    /\ C28_Past(final_value) > 0
    /\ C28_Past(final_value) < stepFine

\* with a page step above 1,000,000 a page step does carry the value past the
\* target
C28_WitnessLargePage ==
    /\ stepPage > large_step_threshold
    /\ spc = "loop"
    /\ lastKey \in {"PageDown", "PageUp"}
    /\ C28_Past(ReadValueNow(aria_valuenow)) > 0

----------------------------------------------------------------------------
(* Claims about lookups that bypass the cache *)

\* C29: a call with use_cache = false calls the distance API whatever the
\* cache holds; when it returns a result the key's entry, in memory and in the
\* file, is that result; when it returns None the key's entry in memory and
\* the file are as they were before the call.
C29_UseCacheFalseOverwritesOrLeaves ==
    [][(request'[3] # "none" /\ request'[4] = FALSE)
         => LET key == GetCacheKey(request'[1], request'[2], request'[3])
            IN  /\ apiCalled'
                /\ ~raised'
                /\ ret' # NoneValue
                     => /\ EntryOf(cache', key) = ret'
                        /\ EntryOf(LoadCache(disk'), key) = ret'
                /\ ret' = NoneValue
                     => /\ EntryOf(cache', key) = EntryOf(cache, key)
                        /\ disk' = disk]_vars

\* What does hold of a call with use_cache = false: the API is called; unless
\* the save of a full result fails, a returned result is the key's entry in
\* memory and in the file, and None leaves memory and file as they were.
C29_HoldsUnlessSaveFails ==
    [][(request'[3] # "none" /\ request'[4] = FALSE)
         => LET key == GetCacheKey(request'[1], request'[2], request'[3])
            IN  /\ apiCalled'
                /\ ~raised'
                /\ (saveIo' \in {"ok", "none"} /\ ret' # NoneValue)
                     => /\ EntryOf(cache', key) = ret'
                        /\ EntryOf(LoadCache(disk'), key) = ret'
                /\ (saveIo' \in {"ok", "none"} /\ ret' = NoneValue)
                     => /\ EntryOf(cache', key) = EntryOf(cache, key)
                        /\ disk' = disk]_vars

\* a call with use_cache = false replaced an existing entry by a new duration,
\* in memory and in the file
C29_WitnessOverwritten ==
    /\ request[4] = FALSE
    /\ apiCalled
    /\ saveIo = "ok"
    /\ prevEntry # NoneValue
    /\ ret # prevEntry
    /\ EntryOf(cache, LastKey) = ret
    /\ EntryOf(LoadCache(disk), LastKey) = ret

----------------------------------------------------------------------------
(* Claims about the cache key as a function *)

\* a lookup as the key normalizes it: mode, trimmed lower-cased origin,
\* trimmed lower-cased destination
C30_Normalized(r) == <<r[3], Strip(Lower(r[1])), Strip(Lower(r[2]))>>

C30_HasSeparator(s) == \E i \in 1..Len(s) : s[i] = "|"

\* C30: two lookups get the same cache key only if they have the same mode,
\* the same trimmed lower-cased origin and the same trimmed lower-cased
\* destination, whatever characters the addresses contain.
C30_KeysInjectiveOnNormalized ==
    keyed.done => (keyed.ka = keyed.kb => C30_Normalized(keyed.a) = C30_Normalized(keyed.b))

\* What does hold: lookups with the same normalized form always share a key,
\* and lookups whose addresses do not contain "|" share a key only if their
\* normalized forms are equal.
C30_InjectiveWithoutSeparator ==
    keyed.done
      => /\ C30_Normalized(keyed.a) = C30_Normalized(keyed.b) => keyed.ka = keyed.kb
         /\ (\A r \in {keyed.a, keyed.b} :
                ~C30_HasSeparator(r[1]) /\ ~C30_HasSeparator(r[2]))
              => (keyed.ka = keyed.kb
                    => C30_Normalized(keyed.a) = C30_Normalized(keyed.b))

\* "m|" -> "m" and "m" -> "|m" have been given one key
C30_Collision ==
    /\ keyed.done
    /\ keyed.a = << <<"m", "|">>, <<"m">>, "transit" >>
    /\ keyed.b = << <<"m">>, <<"|", "m">>, "transit" >>
    /\ keyed.ka = keyed.kb

=============================================================================
